---------------------------- MODULE Spec2Model ----------------------------
(***************************************************************************)
(* A model of bookapp's src/app.py: the catalog index, the resolver        *)
(* find_in_inventory (exact lookup with difflib fuzzy fallback), the cover *)
(* fetcher get_book_cover, the line parser and thread pool of              *)
(* check_inventory_with_images, and the Streamlit button handlers with     *)
(* their caches.                                                           *)
(*                                                                         *)
(* Python strings are sequences of one-character strings, so that          *)
(* lower(), strip(), split() and difflib's ratio are computed, not         *)
(* assumed.  A dict is a sequence of items in insertion order.             *)
(***************************************************************************)
EXTENDS Integers, Sequences, FiniteSets, TLC

VARIABLES
    inventory,          \* the list load_inventory() returned for the current index
    inventory_lookup,   \* the index find_in_inventory reads (module global, line 46)
    all_titles,         \* st.session_state.all_titles, or absent
    call,               \* the last find_in_inventory call and how it ended
    suggestions,        \* the raw text given to check_inventory_with_images
    book_tasks,         \* its list of parsed (title, author) pairs
    pc,                 \* where check_inventory_with_images is
    fut,                \* the futures of the submitted tasks, in submission order
    yielded,            \* the futures as_completed has yielded
    results,            \* the list check_inventory_with_images builds
    net,                \* what the cover requests of this run can do
    cover_cache,        \* the lru_cache of get_book_cover
    cover_call,         \* the last get_book_cover call and how it ended
    books_json,         \* what books.json holds now
    recommendations_cache, \* st.session_state.recommendations_cache
    recommend_data,     \* the st.cache_data entries of recommend_books
    inventory_data,     \* the st.cache_data entries of check_inventory_with_images
    shown,              \* the last button press and what it showed
    history             \* the inputs recommendations were requested for so far

resolveVars == <<inventory, inventory_lookup, all_titles, call>>
parseVars == <<suggestions, book_tasks, pc>>
poolVars == <<fut, yielded, results, net>>
coverVars == <<cover_cache, cover_call>>
pageVars == <<books_json, recommendations_cache, recommend_data, inventory_data,
              shown, history>>
vars == <<inventory, inventory_lookup, all_titles, call, suggestions, book_tasks,
          pc, fut, yielded, results, net, cover_cache, cover_call, books_json,
          recommendations_cache, recommend_data, inventory_data, shown, history>>

-----------------------------------------------------------------------------
(* Strings *)

\* The characters of the model in code-point order (Python compares strings
\* by code point).
Ascii ==
    <<"\t", "\n", " ", "&", "-", ".", "/", "0", "1", "2", "3", "4", "5", "6",
      "7", "8", "9", ":", "=", "A", "B", "C", "D", "E", "F", "G", "H", "I",
      "J", "K", "L", "M", "N", "O", "P", "Q", "R", "S", "T", "U", "V", "W",
      "X", "Y", "Z", "_", "a", "b", "c", "d", "e", "f", "g", "h", "i", "j",
      "k", "l", "m", "n", "o", "p", "q", "r", "s", "t", "u", "v", "w", "x",
      "y", "z">>

Ord(c) == CHOOSE i \in 1..Len(Ascii) : Ascii[i] = c

UpperLetters == {Ascii[i] : i \in Ord("A")..Ord("Z")}

LowerLetters == {Ascii[i] : i \in Ord("a")..Ord("z")}

\* str.lower() on one character.
LowerChar(c) ==
    IF c \in UpperLetters THEN Ascii[Ord(c) + (Ord("a") - Ord("A"))] ELSE c

\* str.upper() on one character.
UpperChar(c) ==
    IF c \in LowerLetters THEN Ascii[Ord(c) - (Ord("a") - Ord("A"))] ELSE c

Lower(s) == [i \in 1..Len(s) |-> LowerChar(s[i])]

Upper(s) == [i \in 1..Len(s) |-> UpperChar(s[i])]

\* The characters str.strip() with no argument removes.
Whitespace == {" ", "\t", "\n"}

\* F of the value of x.  TLC works out an operator's argument whenever the
\* operator's body uses it; here it is worked out once.
Apply(F(_), x) == CHOOSE y \in {F(v) : v \in {x}} : TRUE

Least(S) == CHOOSE k \in S : \A m \in S : k <= m

Greatest(S) == CHOOSE k \in S : \A m \in S : m <= k

Min(S) == Apply(Least, S)

Max(S) == Apply(Greatest, S)

\* The part of s from the first kept position to the last one.
Between(s, keep) == IF keep = {} THEN <<>> ELSE SubSeq(s, Min(keep), Max(keep))

\* str.strip(chars): drop the leading and the trailing characters in chars.
StripChars(s, chars) ==
    Apply(LAMBDA keep : Between(s, keep), {i \in 1..Len(s) : s[i] \notin chars})

Strip(s) == StripChars(s, Whitespace)

\* x < y for Python strings.
StrLess(x, y) ==
    \/ /\ Len(x) < Len(y)
       /\ \A i \in 1..Len(x) : x[i] = y[i]
    \/ \E i \in 1..Len(x) :
          /\ i <= Len(y)
          /\ \A j \in 1..(i - 1) : x[j] = y[j]
          /\ Ord(x[i]) < Ord(y[i])

\* Titles and authors of the model.
s_Dune == <<"D", "u", "n", "e">>
s_dune_sp == <<"d", "u", "n", "e", " ">>
s_dunes == <<"d", "u", "n", "e", "s">>
s_emma == <<"e", "m", "m", "a">>
s_emmas == <<"e", "m", "m", "a", "s">>
s_zzzz == <<"z", "z", "z", "z">>
s_fh == <<"f", "h">>
s_FH == <<"F", "H">>
s_ja == <<"j", "a">>
s_xx == <<"x", "x">>
s_Zz == <<"Z", "z">>

\* The sequences over S of length at most n.
RECURSIVE SeqsUpTo(_, _)
SeqsUpTo(S, n) ==
    IF n = 0 THEN {<<>>}
    ELSE Apply(LAMBDA shorter :
                   shorter \cup {Append(s, x) : s \in {t \in shorter : Len(t) = n - 1},
                                                x \in S},
               SeqsUpTo(S, n - 1))

-----------------------------------------------------------------------------
(* difflib: SequenceMatcher.ratio and get_close_matches, as find_in_inventory *)
(* calls them (no junk; autojunk only matters from 200 characters on)        *)

RECURSIVE RunLen(_, _, _, _, _, _)
\* Length of the common run of a and b that ends at a[i], b[j] inside the
\* windows starting at alo and blo (j2len in find_longest_match).
RunLen(a, b, i, j, alo, blo) ==
    IF i < alo \/ j < blo THEN 0
    ELSE IF a[i] # b[j] THEN 0
    ELSE 1 + RunLen(a, b, i - 1, j - 1, alo, blo)

\* j2len of find_longest_match for every pair of end positions in the windows.
RunLens(a, b, alo, ahi, blo, bhi) ==
    [e \in (alo..ahi) \X (blo..bhi) |-> RunLen(a, b, e[1], e[2], alo, blo)]

\* The block of size k that ends at a[i0], b[j0].
BlockEnding(i0, j0, k) == [i |-> i0 - k + 1, j |-> j0 - k + 1, k |-> k]

\* The end that comes first in a, then in b.
EarliestEnd(ends) ==
    CHOOSE e \in ends :
        \A d \in ends : e[1] < d[1] \/ (e[1] = d[1] /\ e[2] <= d[2])

\* Among the blocks of size best, the earliest in a, then the earliest in b;
\* (alo, blo, 0) when nothing matches.
EarliestBlock(len, best, alo, blo) ==
    IF best = 0 THEN [i |-> alo, j |-> blo, k |-> 0]
    ELSE Apply(LAMBDA e : BlockEnding(e[1], e[2], best),
               Apply(EarliestEnd, {d \in DOMAIN len : len[d] = best}))

LongestIn(len, alo, blo) ==
    Apply(LAMBDA best : EarliestBlock(len, best, alo, blo),
          Max({len[e] : e \in DOMAIN len} \cup {0}))

\* find_longest_match(alo, ahi, blo, bhi) on inclusive 1-based windows: the
\* longest common block, the one starting earliest in a, then earliest in b.
FindLongestMatch(a, b, alo, ahi, blo, bhi) ==
    Apply(LAMBDA len : LongestIn(len, alo, blo), RunLens(a, b, alo, ahi, blo, bhi))

RECURSIVE MatchingChars(_, _, _, _, _, _)
\* The size of the block m plus the matches to its left and to its right.
AroundBlock(a, b, alo, ahi, blo, bhi, m) ==
    IF m.k = 0 THEN 0
    ELSE m.k
         + (IF alo < m.i /\ blo < m.j
            THEN MatchingChars(a, b, alo, m.i - 1, blo, m.j - 1) ELSE 0)
         + (IF m.i + m.k <= ahi /\ m.j + m.k <= bhi
            THEN MatchingChars(a, b, m.i + m.k, ahi, m.j + m.k, bhi) ELSE 0)

\* The sum of the sizes of get_matching_blocks(): the longest block, then the
\* same to its left and to its right.
MatchingChars(a, b, alo, ahi, blo, bhi) ==
    Apply(LAMBDA m : AroundBlock(a, b, alo, ahi, blo, bhi, m),
          FindLongestMatch(a, b, alo, ahi, blo, bhi))

\* ratio() = 2.0 * matches / length as the fraction <<numerator, denominator>>;
\* _calculate_ratio returns 1.0 when both strings are empty.
Ratio(a, b) ==
    IF Len(a) + Len(b) = 0 THEN <<1, 1>>
    ELSE <<2 * MatchingChars(a, b, 1, Len(a), 1, Len(b)), Len(a) + Len(b)>>

\* real_quick_ratio(): an upper bound from the lengths alone.
RealQuickRatio(a, b) ==
    IF Len(a) + Len(b) = 0 THEN <<1, 1>>
    ELSE <<2 * (IF Len(a) < Len(b) THEN Len(a) ELSE Len(b)), Len(a) + Len(b)>>

Count(s, c) == Cardinality({i \in 1..Len(s) : s[i] = c})

RECURSIVE SumOver(_, _, _)
\* The occurrences a and b share of the character c, plus those of the
\* other characters of S.
SumFrom(c, S, a, b) ==
    (IF Count(a, c) < Count(b, c) THEN Count(a, c) ELSE Count(b, c))
    + Apply(LAMBDA rest : SumOver(rest, a, b), S \ {c})

SumOver(S, a, b) ==
    IF S = {} THEN 0 ELSE SumFrom(CHOOSE x \in S : TRUE, S, a, b)

\* quick_ratio(): an upper bound from the characters in common as multisets.
QuickRatio(a, b) ==
    IF Len(a) + Len(b) = 0 THEN <<1, 1>>
    ELSE <<2 * SumOver({b[i] : i \in 1..Len(b)}, a, b), Len(a) + Len(b)>>

\* r >= cutoff, the cutoff in hundredths (0.8 is 80).
AtLeast(r, cutoff) == r[1] * 100 >= cutoff * r[2]

\* (score, x) < (score', y) for the tuples get_close_matches ranks, the
\* scores being the fractions rx and ry.
ScoredLess(rx, x, ry, y) ==
    \/ rx[1] * ry[2] < ry[1] * rx[2]
    \/ rx[1] * ry[2] = ry[1] * rx[2] /\ StrLess(x, y)

\* get_close_matches rejects a cutoff outside [0.0, 1.0] with ValueError.
CutoffValid(cutoff) == 0 <= cutoff /\ cutoff <= 100

\* The possibilities (by position) that pass the three ratio tests.
Passing(word, possibilities, cutoff, score) ==
    {i \in 1..Len(possibilities) :
        /\ AtLeast(RealQuickRatio(possibilities[i], word), cutoff)
        /\ AtLeast(QuickRatio(possibilities[i], word), cutoff)
        /\ AtLeast(score[i], cutoff)}

\* heapq.nlargest(1, ...) over the (score, x) of the passing possibilities.
Largest(possibilities, score, passing) ==
    IF passing = {} THEN <<>>
    ELSE <<possibilities[CHOOSE i \in passing :
                            \A j \in passing :
                               ~ScoredLess(score[i], possibilities[i],
                                           score[j], possibilities[j])]>>

CloseMatchesBy(word, possibilities, cutoff, score) ==
    Apply(LAMBDA passing : Largest(possibilities, score, passing),
          Passing(word, possibilities, cutoff, score))

\* get_close_matches(word, possibilities, n=1, cutoff): the possibilities that
\* pass the three ratio tests, and of those heapq.nlargest(1, ...) keeps the
\* greatest (score, x).  <<>> when none passes.
GetCloseMatches(word, possibilities, cutoff) ==
    Apply(LAMBDA score : CloseMatchesBy(word, possibilities, cutoff, score),
          [i \in 1..Len(possibilities) |-> Ratio(possibilities[i], word)])

-----------------------------------------------------------------------------
(* The catalog index: build_inventory_lookup *)

\* title.lower().strip(), the normalisation of index keys and of queries.
Norm(s) == Strip(Lower(s))

HasKey(d, t, a) == \E i \in 1..Len(d) : d[i].t = t /\ d[i].a = a

GetItem(d, t, a) == d[CHOOSE i \in 1..Len(d) : d[i].t = t /\ d[i].a = a].v

\* d[(t, a)] = v on a dict: an existing key keeps its place and takes the new
\* value, a new key goes last.
SetItem(d, t, a, v) ==
    IF HasKey(d, t, a)
    THEN [i \in 1..Len(d) |->
             IF d[i].t = t /\ d[i].a = a THEN [d[i] EXCEPT !.v = v] ELSE d[i]]
    ELSE Append(d, [t |-> t, a |-> a, v |-> v])

RECURSIVE LookupOfFirst(_, _)
\* The dict comprehension over the first n books.
LookupOfFirst(inv, n) ==
    IF n = 0 THEN <<>>
    ELSE SetItem(LookupOfFirst(inv, n - 1),
                 Norm(inv[n].title), Norm(inv[n].author), inv[n].available)

RECURSIVE RawKeysOfFirst(_, _)
RawKeysOfFirst(inv, n) ==
    IF n = 0 THEN <<>>
    ELSE SetItem(RawKeysOfFirst(inv, n - 1),
                 inv[n].title, inv[n].author, inv[n].available)

\* A build_inventory_lookup that forgets .lower().strip() on the keys.
BuildInventoryLookupRawKeys(inv) == RawKeysOfFirst(inv, Len(inv))

\* build_inventory_lookup() on the list load_inventory() returned.
BuildInventoryLookup(inv) == LookupOfFirst(inv, Len(inv))

\* [t for (t, a) in inventory_lookup.keys()]
TitlesOf(d) == [i \in 1..Len(d) |-> d[i].t]

-----------------------------------------------------------------------------
(* The resolver: find_in_inventory *)

Absent == [present |-> FALSE, titles |-> <<>>]

Present(ts) == [present |-> TRUE, titles |-> ts]

\* Lines 137-144: the availability of the first index entry whose title is
\* the close match, "Not in Inventory" when there is no close match.
FuzzyResult(lookup, at2, hits) ==
    [kind |-> "return",
     value |-> IF hits # {} THEN lookup[Min(hits)].v ELSE "Not in Inventory",
     all_titles |-> at2]

TitledAs(lookup, close) ==
    IF close = <<>> THEN {} ELSE {i \in 1..Len(lookup) : lookup[i].t = close[1]}

\* The positions of the index entries whose title is the close match.
EntriesTitled(lookup, close) == Apply(LAMBDA c : TitledAs(lookup, c), close)

\* Lines 135-144, all_titles being at2 by now.
FindFuzzy(title, cutoff, lookup, at2) ==
    IF ~CutoffValid(cutoff)
    THEN [kind |-> "raise", value |-> "ValueError", all_titles |-> at2]
    ELSE Apply(LAMBDA hits : FuzzyResult(lookup, at2, hits),
               EntriesTitled(lookup, GetCloseMatches(title, at2.titles, cutoff)))

\* Lines 127-144 on the normalised title and author.
FindNormalized(title, author, cutoff, lookup, at) ==
    IF HasKey(lookup, title, author)
    THEN [kind |-> "return", value |-> GetItem(lookup, title, author),
          all_titles |-> at]
    ELSE Apply(LAMBDA at2 : FindFuzzy(title, cutoff, lookup, at2),
               IF at.present THEN at ELSE Present(TitlesOf(lookup)))

\* One call of find_in_inventory against the index `lookup` with
\* st.session_state.all_titles being `at`: how it ends (kind "return" with
\* the availability, or kind "raise"), and all_titles afterwards.
FindInInventory(title0, author0, cutoff, lookup, at) ==
    Apply(LAMBDA key : FindNormalized(key[1], key[2], cutoff, lookup, at),
          <<Norm(title0), Norm(author0)>>)

\* The default of the cutoff parameter, 0.8, in hundredths.
DefaultCutoff == 80

-----------------------------------------------------------------------------
(* The line parser of check_inventory_with_images (lines 198-211) *)

RECURSIVE SplitFrom(_, _, _)
\* The pieces of s from position i on: up to the next sep at j and on from
\* j + 1, or the rest when no sep is left.
SplitAt(s, sep, i, at) ==
    IF at = {} THEN <<SubSeq(s, i, Len(s))>>
    ELSE Apply(LAMBDA j : <<SubSeq(s, i, j - 1)>> \o SplitFrom(s, sep, j + 1), Min(at))

SplitFrom(s, sep, i) ==
    Apply(LAMBDA at : SplitAt(s, sep, i, at), {k \in i..Len(s) : s[k] = sep})

\* str.split(sep) for a one-character separator.
Split(s, sep) == SplitFrom(s, sep, 1)

\* str.split(sep, 1) on a string that contains sep: the text before the first
\* sep and the text after it.
SplitOnce(s, sep) ==
    Apply(LAMBDA i : <<SubSeq(s, 1, i - 1), SubSeq(s, i + 1, Len(s))>>,
          Min({k \in 1..Len(s) : s[k] = sep}))

Contains(s, c) == \E i \in 1..Len(s) : s[i] = c

\* The characters of the argument of strip("1234567890. ") on line 204.
NumberingChars == {"1", "2", "3", "4", "5", "6", "7", "8", "9", "0", ".", " "}

\* Lines 208-211: the pair is kept when both parts are non-empty.
KeepPair(sofar, book_title, author) ==
    IF book_title = <<>> \/ author = <<>> THEN sofar
    ELSE Append(sofar, <<book_title, author>>)

\* Lines 202-211 on one line of the text.
ParseLine(sofar, line) ==
    IF ~Contains(line, "-") THEN sofar
    ELSE Apply(LAMBDA parts :
                   KeepPair(sofar, Strip(StripChars(parts[1], NumberingChars)),
                            Strip(parts[2])),
               SplitOnce(line, "-"))

RECURSIVE ParseLines(_, _)
\* The loop of lines 201-211 over the first n lines.
ParseLines(lines, n) ==
    IF n = 0 THEN <<>>
    ELSE Apply(LAMBDA sofar : ParseLine(sofar, lines[n]), ParseLines(lines, n - 1))

\* book_tasks after the parsing loop.
ParseBooks(text) ==
    Apply(LAMBDA lines : ParseLines(lines, Len(lines)), Split(text, "\n"))

-----------------------------------------------------------------------------
(* The cover fetcher: get_book_cover (lines 94-115) *)

\* JSON values as response.json() returns them, tagged with their Python type.
JNull == [k |-> "null", v |-> <<>>]
JNum(n) == [k |-> "num", v |-> <<n>>]
JStr(s) == [k |-> "str", v |-> s]
JList(xs) == [k |-> "list", v |-> xs]
\* A dict: its items <<key, value>> in order.
JObj(items) == [k |-> "obj", v |-> items]

\* bool(x)
Truthy(x) ==
    CASE x.k = "null" -> FALSE
      [] x.k = "num" -> x.v[1] # 0
      [] OTHER -> Len(x.v) > 0

HasField(x, key) == \E i \in 1..Len(x.v) : x.v[i][1] = key

Field(x, key) == x.v[CHOOSE i \in 1..Len(x.v) : x.v[i][1] = key][2]

\* sub occurs in s at position i.
OccursAt(s, sub, i) ==
    /\ i + Len(sub) - 1 <= Len(s)
    /\ \A j \in 1..Len(sub) : s[i + j - 1] = sub[j]

RECURSIVE ReplaceFrom(_, _, _, _)
\* s from position i on, with new for every old.
ReplaceFrom(s, old, new, i) ==
    IF i + Len(old) - 1 > Len(s) THEN SubSeq(s, i, Len(s))
    ELSE IF OccursAt(s, old, i) THEN new \o ReplaceFrom(s, old, new, i + Len(old))
    ELSE <<s[i]>> \o ReplaceFrom(s, old, new, i + 1)

\* str.replace(old, new) for a non-empty old.
Replace(s, old, new) == ReplaceFrom(s, old, new, 1)

s_items == <<"i", "t", "e", "m", "s">>
s_http == <<"h", "t", "t", "p", ":", "/", "/">>
s_https == <<"h", "t", "t", "p", "s", ":", "/", "/">>
s_edge == <<"&", "e", "d", "g", "e", "=", "c", "u", "r", "l">>

\* How a call or a step of one ends.
Returns(x) == [kind |-> "return", value |-> x, exc |-> ""]
Raises(e) == [kind |-> "raise", value |-> JNull, exc |-> e]

\* "items" not in data (line 105): TRUE, FALSE, or the TypeError of a value
\* that supports no membership test.
ItemsNotIn(data) ==
    CASE data.k = "obj" -> Returns(~HasField(data, "items"))
      [] data.k = "list" ->
            Returns(~\E i \in 1..Len(data.v) :
                        data.v[i].k = "str" /\ data.v[i].v = s_items)
      [] data.k = "str" ->
            Returns(~\E i \in 1..Len(data.v) : OccursAt(data.v, s_items, i))
      [] OTHER -> Raises("TypeError")

\* data["items"] where "items" in data held.
GetItems(data) ==
    IF data.k = "obj" THEN Returns(Field(data, "items")) ELSE Raises("TypeError")

\* x[0]
First(x) ==
    CASE x.k = "list" -> IF Len(x.v) = 0 THEN Raises("IndexError") ELSE Returns(x.v[1])
      [] x.k = "str" ->
            IF Len(x.v) = 0 THEN Raises("IndexError") ELSE Returns(JStr(<<x.v[1]>>))
      [] x.k = "obj" -> Raises("KeyError")
      [] OTHER -> Raises("TypeError")

\* x[key] for a string key
Subscript(x, key) ==
    IF x.k = "obj"
    THEN IF HasField(x, key) THEN Returns(Field(x, key)) ELSE Raises("KeyError")
    ELSE Raises("TypeError")

\* x.get(key, default)
Get(x, key, default) ==
    IF x.k = "obj"
    THEN Returns(IF HasField(x, key) THEN Field(x, key) ELSE default)
    ELSE Raises("AttributeError")

\* image.replace("http://", "https://").replace("&edge=curl", "") (line 111)
CleanUrl(image) ==
    IF image.k = "str"
    THEN Returns(JStr(Apply(LAMBDA url : Replace(url, s_edge, <<>>),
                            Replace(image.v, s_http, s_https))))
    ELSE Raises("AttributeError")

\* The exceptions line 113 catches, by class name.  requests.get raises
\* ConnectionError or Timeout, raise_for_status raises HTTPError, all of them
\* RequestException.
Caught == {"ConnectionError", "Timeout", "HTTPError", "RequestsJSONDecodeError",
           "KeyError", "IndexError"}

\* The step r raised, or F goes on with its value.
Then(r, F(_)) == Apply(LAMBDA x : IF x.kind = "raise" THEN x ELSE F(x.value), r)

\* Lines 105-112 on the decoded body.
CoverFromData(data) ==
    Then(ItemsNotIn(data), LAMBDA missing :
        IF missing THEN Returns(JNull)
        ELSE Then(GetItems(data), LAMBDA items :
            IF ~Truthy(items) THEN Returns(JNull)
            ELSE Then(First(items), LAMBDA first :
                Then(Subscript(first, "volumeInfo"), LAMBDA vol :
                    Then(Get(vol, "imageLinks", JObj(<<>>)), LAMBDA links :
                        Then(Get(links, "thumbnail", JNull), LAMBDA image :
                            IF Truthy(image) THEN CleanUrl(image)
                            ELSE Returns(image)))))))

\* What the request of lines 101-103 can do: raise (a requests exception, or
\* the error of response.json() on a body that is no JSON), or give the
\* decoded body.
Failed(e) == [t |-> "raise", exc |-> e, data |-> JNull]
Body(data) == [t |-> "json", exc |-> "", data |-> data]

\* The body of get_book_cover for one outcome of the request: what
\* the call returns, or the exception that leaves it.
GetBookCover(resp) ==
    Apply(LAMBDA r : IF r.kind = "raise" /\ r.exc \in Caught THEN Returns(JNull) ELSE r,
          IF resp.t = "raise" THEN Raises(resp.exc) ELSE CoverFromData(resp.data))

-----------------------------------------------------------------------------
(* Cover specification: calls of get_book_cover within one script run *)

s_b == <<"b">>

\* Bodies that differ in one place from a well-formed answer.
WithItems(items) == JObj(<<<<"kind", JStr(s_b)>>, <<"items", items>>>>)
WithFirst(first) == WithItems(JList(<<first>>))
WithVolumeInfo(vol) == WithFirst(JObj(<<<<"id", JStr(s_b)>>, <<"volumeInfo", vol>>>>))
WithImageLinks(links) ==
    WithVolumeInfo(JObj(<<<<"title", JStr(s_b)>>, <<"imageLinks", links>>>>))
WithThumbnail(image) ==
    WithImageLinks(JObj(<<<<"smallThumbnail", JStr(s_b)>>, <<"thumbnail", image>>>>))

\* The outcomes of the request that the model covers.  response.json() on a
\* body that is no JSON raises requests' JSONDecodeError, a RequestException.
Responses ==
    <<Failed("ConnectionError"), Failed("Timeout"), Failed("HTTPError"),
      Failed("RequestsJSONDecodeError"),
      Body(JNull), Body(JNum(5)), Body(JStr(s_items)), Body(JStr(s_b)),
      Body(JList(<<>>)), Body(JList(<<JStr(s_items)>>)), Body(JObj(<<>>)),
      Body(JObj(<<<<"totalItems", JNum(0)>>>>)),
      Body(WithItems(JNull)), Body(WithItems(JList(<<>>))), Body(WithItems(JStr(<<>>))),
      Body(WithItems(JNum(0))), Body(WithItems(JObj(<<>>))), Body(WithItems(JStr(s_b))),
      Body(WithItems(JNum(5))), Body(WithItems(JObj(<<<<"a", JNull>>>>))),
      Body(WithFirst(JNull)), Body(WithFirst(JNum(1))), Body(WithFirst(JStr(s_b))),
      Body(WithFirst(JList(<<>>))), Body(WithFirst(JObj(<<>>))),
      Body(WithVolumeInfo(JNull)), Body(WithVolumeInfo(JStr(s_b))),
      Body(WithVolumeInfo(JList(<<>>))), Body(WithVolumeInfo(JNum(1))),
      Body(WithVolumeInfo(JObj(<<>>))),
      Body(WithVolumeInfo(JObj(<<<<"title", JStr(s_b)>>>>))),
      Body(WithImageLinks(JNull)), Body(WithImageLinks(JObj(<<>>))),
      Body(WithImageLinks(JStr(s_b))), Body(WithImageLinks(JList(<<>>))),
      Body(WithImageLinks(JNum(0))),
      Body(WithThumbnail(JNull)), Body(WithThumbnail(JStr(<<>>))),
      Body(WithThumbnail(JStr(s_http \o s_b))), Body(WithThumbnail(JStr(s_https \o s_b))),
      Body(WithThumbnail(JStr(s_http \o s_b \o s_edge \o s_b))),
      Body(WithThumbnail(JNum(7))), Body(WithThumbnail(JNum(0))),
      Body(WithThumbnail(JList(<<JStr(s_b)>>))), Body(WithThumbnail(JObj(<<>>)))>>

NotCached == [cached |-> FALSE, value |-> JNull]

NoCoverCall == [key |-> <<>>, resp |-> 0, kind |-> "none", value |-> JNull, exc |-> ""]

\* The (title, author) pairs get_book_cover is called with.
CoverKeys == {<<s_Dune, s_fh>>, <<s_Zz, s_xx>>}

CoverIdle ==
    /\ cover_cache = [key \in CoverKeys |-> NotCached]
    /\ cover_call = NoCoverCall

\* No button was pressed yet.
NothingShown ==
    [kind |-> "none", inputs |-> <<>>, hit |-> FALSE, computed_for |-> <<>>,
     llm |-> FALSE, aggregated |-> FALSE, after_clear |-> FALSE, again |-> FALSE,
     file |-> <<>>]

NoHistory == {}

\* The page's caches are empty and no button was pressed.
PageIdle(file) ==
    /\ books_json = file
    /\ recommendations_cache = {}
    /\ recommend_data = {}
    /\ inventory_data = {}
    /\ shown = NothingShown
    /\ history = NoHistory

PoolIdle ==
    /\ fut = <<>>
    /\ yielded = {}
    /\ results = <<>>
    /\ net = {}

\* get_book_cover(title, author) for the pair numbered key: the lru_cache
\* answers a pair it holds; otherwise the body runs against the request's
\* outcome, and a returned value (no exception) is cached.
CallCover(key, resp) ==
    /\ IF cover_cache[key].cached
       THEN /\ cover_call' = [key |-> key, resp |-> 0, kind |-> "return",
                              value |-> cover_cache[key].value, exc |-> ""]
            /\ UNCHANGED cover_cache
       ELSE \E r \in {GetBookCover(Responses[resp])} :
                /\ cover_call' = [key |-> key, resp |-> resp, kind |-> r.kind,
                                  value |-> r.value, exc |-> r.exc]
                /\ cover_cache' =
                      IF r.kind = "return"
                      THEN [cover_cache EXCEPT ![key] = [cached |-> TRUE, value |-> r.value]]
                      ELSE cover_cache
    /\ UNCHANGED <<pageVars, resolveVars, parseVars, poolVars>>

ResolveIdle ==
    /\ inventory = <<>>
    /\ inventory_lookup = <<>>
    /\ all_titles = [present |-> FALSE, titles |-> <<>>]
    /\ call = [title |-> <<>>, author |-> <<>>, cutoff |-> 80, entry |-> 0,
               kind |-> "none", value |-> ""]

ParseIdle ==
    /\ suggestions = <<>>
    /\ book_tasks = <<>>
    /\ pc = "idle"

InitCover == ResolveIdle /\ ParseIdle /\ PoolIdle /\ CoverIdle /\ PageIdle(<<>>)

NextCover == \E key \in CoverKeys, resp \in 1..Len(Responses) : CallCover(key, resp)

SpecCover == InitCover /\ [][NextCover]_vars

-----------------------------------------------------------------------------
(* Parser specification: the parsing loop on the texts of the model *)

\* The lines the texts of the model are made of.
TextLines ==
    {<<"1", ".", " ", "A", "b", " ", "-", " ", "c", "d">>,
     <<"2", ".", " ">>,
     <<>>,
     <<"1", "9", "8", "4", " ", "-", " ", "g", "o">>,
     <<"3", ".", " ", "A", "b", " ", "2", "2", " ", "-", " ", "j", "h">>,
     <<" ", "A", "b", "-", "c", "d", " ", "\t">>,
     <<"4", ".", " ", "-", " ", "c", "d">>,
     <<"5", ".", " ", "A", "b", " ", "-", " ">>,
     <<"6", ".", " ", "A", "-", "B", " ", "-", " ", "c">>,
     <<"7", ".", " ", "M", "r", ".", " ", "-", " ", "x">>,
     <<"A", "b", " ", "c", "d">>}

\* The most lines a text of the model has.
MaxLines == 2

RECURSIVE JoinLines(_)
\* "\n".join(lines)
JoinLines(lines) ==
    IF Len(lines) = 0 THEN <<>>
    ELSE IF Len(lines) = 1 THEN lines[1]
    ELSE lines[1] \o <<"\n">> \o JoinLines(Tail(lines))

Texts == {JoinLines(ls) : ls \in SeqsUpTo(TextLines, MaxLines)}

InitParse ==
    /\ ResolveIdle
    /\ PageIdle(<<>>)
    /\ CoverIdle
    /\ PoolIdle
    /\ suggestions \in Texts
    /\ book_tasks = <<>>
    /\ pc = "parse"

\* Lines 198-211.
Parse ==
    /\ pc = "parse"
    /\ book_tasks' = ParseBooks(suggestions)
    /\ pc' = "submit"
    /\ UNCHANGED <<pageVars, suggestions, resolveVars, coverVars, poolVars>>

NextParse == Parse

SpecParse == InitParse /\ [][NextParse]_vars

-----------------------------------------------------------------------------
(* Resolver specification: calls of find_in_inventory against an index that *)
(* the cache buttons rebuild from a catalog file that may have changed      *)

Book(t, a, v) == [title |-> t, author |-> a, available |-> v]

\* The entries a books.json of the model is made of.
CatalogEntries ==
    <<Book(s_Dune, s_fh, "yes"),
      Book(s_dune_sp, s_FH, "no"),
      Book(s_emma, s_ja, "maybe")>>

\* The most books a books.json of the model holds.
MaxCatalog == 2

Catalogs == SeqsUpTo({CatalogEntries[i] : i \in 1..Len(CatalogEntries)}, MaxCatalog)

\* build_inventory_lookup() for every books.json of the model, tabulated.
IndexOf == [file \in Catalogs |-> BuildInventoryLookup(file)]

\* A query written like entry e in another letter case or with whitespace
\* around it.
Variant(s, how) ==
    CASE how = "asis" -> s
      [] how = "upper" -> Upper(s)
      [] how = "padded" -> <<" ">> \o s \o <<" ", "\t">>

Query(t, a, c, e) == [title |-> t, author |-> a, cutoff |-> c, entry |-> e]

\* The calls of the model: every entry in three spellings at the default
\* cutoff, every entry as written at other cutoffs, and titles and authors
\* that are no entry's.  `entry` is the entry the query spells, 0 for none.
Queries ==
    {Query(Variant(CatalogEntries[e].title, how), Variant(CatalogEntries[e].author, how),
           DefaultCutoff, e) :
        e \in 1..Len(CatalogEntries), how \in {"asis", "upper", "padded"}}
    \cup {Query(CatalogEntries[e].title, CatalogEntries[e].author, 150, e) :
             e \in 1..Len(CatalogEntries)}
    \cup {Query(t, s_xx, c, 0) :
             t \in {s_emmas, s_dunes, s_zzzz}, c \in {DefaultCutoff, 0, 150}}

NoCall == [title |-> <<>>, author |-> <<>>, cutoff |-> DefaultCutoff, entry |-> 0,
           kind |-> "none", value |-> ""]

\* Lines 38-39 and 46 on a session's first run: the index is built from the
\* file; all_titles is not in the session yet.
InitResolve ==
    /\ ParseIdle
    /\ CoverIdle
    /\ PoolIdle
    /\ inventory \in Catalogs
    /\ PageIdle(inventory)
    /\ inventory_lookup = IndexOf[inventory]
    /\ all_titles = Absent
    /\ call = NoCall

\* find_in_inventory(q.title, q.author, q.cutoff) against the current index.
CallFind(q) ==
    \E r \in {FindInInventory(q.title, q.author, q.cutoff, inventory_lookup, all_titles)} :
        /\ call' = [title |-> q.title, author |-> q.author, cutoff |-> q.cutoff,
                    entry |-> q.entry, kind |-> r.kind, value |-> r.value]
        /\ all_titles' = r.all_titles
        /\ UNCHANGED <<pageVars, inventory, inventory_lookup, parseVars, poolVars, coverVars>>

\* books.json becomes `file`, then "Clear Cache" or "Clear All Caches" (lines
\* 390 and 402) and the rerun that follows (line 46): the index is rebuilt
\* from the file as it is now.  Neither handler touches
\* st.session_state.all_titles; the recommendation caches are empty here.
RebuildIndex(file) ==
    /\ books_json' = file
    /\ inventory' = file
    /\ inventory_lookup' = IndexOf[file]
    /\ call' = NoCall
    /\ UNCHANGED <<recommendations_cache, recommend_data, inventory_data, shown,
                   history, all_titles, parseVars, poolVars, coverVars>>

NextResolve ==
    \/ \E q \in Queries : CallFind(q)
    \/ \E file \in Catalogs : RebuildIndex(file)

SpecResolve == InitResolve /\ [][NextResolve]_vars

-----------------------------------------------------------------------------
(* Aggregator specification: one run of check_inventory_with_images, from   *)
(* the raw text to the returned list, its tasks on the thread pool          *)

\* max_workers of the ThreadPoolExecutor.
MaxWorkers == 5

\* The most lines the raw text of a run has when its requests may each end
\* in any way,
MaxBooks == 4

\* and when they all end in the same way.
MaxPoolBooks == 6

\* The most different inputs the user requests recommendations for.
MaxInputs == 2

\* The pair on line i: every second line repeats a pair already listed.
AggPair(i) == IF i % 2 = 0 THEN <<s_Zz, s_xx>> ELSE <<s_Dune, s_fh>>

\* Line i of a numbered "Title - Author" list.
AggLine(i) ==
    <<Ascii[Ord("0") + i], ".", " ">> \o AggPair(i)[1] \o <<" ", "-", " ">> \o AggPair(i)[2]

AggText(n) == JoinLines([i \in 1..n |-> AggLine(i)])

\* The catalog of the run.
AggCatalog == <<CatalogEntries[1], CatalogEntries[3]>>

\* What the cover request of a task can do in the model: answer with a
\* thumbnail, fail to connect, or answer with "imageLinks": null.
TaskResponses ==
    <<Body(WithThumbnail(JStr(s_http \o s_b \o s_edge))),
      Failed("ConnectionError"),
      Body(WithImageLinks(JNull))>>

BookResult(t, a, availability, cover) ==
    [title |-> t, author |-> a, availability |-> availability, cover |-> cover]

NoResult == BookResult(<<>>, <<>>, "", JNull)

\* Lines 187-193 once get_book_cover has ended: the task raises what it
\* raised, or returns the record; lru_cache keeps a returned cover.
WithCover(book_title, author, found, cover, cache) ==
    IF cover.kind = "raise"
    THEN [kind |-> "raise", value |-> NoResult, all_titles |-> found.all_titles,
          cache |-> cache]
    ELSE [kind |-> "return",
          value |-> BookResult(book_title, author, found.value, cover.value),
          all_titles |-> found.all_titles,
          cache |-> [cache EXCEPT ![<<book_title, author>>] =
                                     [cached |-> TRUE, value |-> cover.value]]]

\* fetch_single_book_data(book_title, author) (lines 184-193), the cover
\* request answering resp: how the task ends, and the session's all_titles
\* and the cover cache after it.  find_in_inventory runs first; its own
\* lru_cache cannot change an answer within a run, where the index is fixed.
FetchSingleBookData(book_title, author, lookup, at, cache, resp) ==
    Apply(LAMBDA found :
              IF found.kind = "raise"
              THEN [kind |-> "raise", value |-> NoResult,
                    all_titles |-> found.all_titles, cache |-> cache]
              ELSE Apply(LAMBDA cover : WithCover(book_title, author, found, cover, cache),
                         IF cache[<<book_title, author>>].cached
                         THEN Returns(cache[<<book_title, author>>].value)
                         ELSE GetBookCover(resp)),
          FindInInventory(book_title, author, DefaultCutoff, lookup, at))

\* The start of a run on a text of n lines whose requests end as `ends` says.
InitRun(n, ends) ==
    /\ inventory = AggCatalog
    /\ inventory_lookup = IndexOf[AggCatalog]
    /\ all_titles = Absent
    /\ call = NoCall
    /\ CoverIdle
    /\ PageIdle(AggCatalog)
    /\ fut = <<>>
    /\ yielded = {}
    /\ results = <<>>
    /\ net = ends
    /\ suggestions = AggText(n)
    /\ book_tasks = <<>>
    /\ pc = "parse"

InitAgg == \E n \in 0..MaxBooks : InitRun(n, 1..Len(TaskResponses))

InitPool == \E n \in 0..MaxPoolBooks, r \in 1..Len(TaskResponses) : InitRun(n, {r})

\* executor.submit(fetch_single_book_data, title, author) for the next pair
\* (lines 216-219).
Submit ==
    /\ pc = "submit"
    /\ Len(fut) < Len(book_tasks)
    /\ fut' = Append(fut, [st |-> "queued", kind |-> "none", value |-> NoResult])
    /\ UNCHANGED <<pageVars, resolveVars, parseVars, yielded, results, net, coverVars>>

\* The dict comprehension is done; as_completed starts (line 221).
AllSubmitted ==
    /\ pc = "submit"
    /\ Len(fut) = Len(book_tasks)
    /\ pc' = "collect"
    /\ UNCHANGED <<pageVars, resolveVars, suggestions, book_tasks, poolVars, coverVars>>

Running == {i \in 1..Len(fut) : fut[i].st = "running"}

\* A pool without the limit on its threads.
WorkerFreeUnbounded == TRUE

\* The pool has a thread for one more task: it starts at most max_workers
\* threads, each running one task at a time (line 215).
WorkerFree == Cardinality(Running) < MaxWorkers

\* A worker thread takes the oldest queued task.
StartTask(i) ==
    /\ fut[i].st = "queued"
    /\ \A j \in 1..(i - 1) : fut[j].st # "queued"
    /\ WorkerFree
    /\ fut' = [fut EXCEPT ![i].st = "running"]
    /\ UNCHANGED <<pageVars, resolveVars, parseVars, yielded, results, net, coverVars>>

\* The task of future i runs fetch_single_book_data and ends: the future
\* holds its result or its exception.
FinishTask(i, resp) ==
    /\ fut[i].st = "running"
    /\ \E r \in {FetchSingleBookData(book_tasks[i][1], book_tasks[i][2],
                                       inventory_lookup, all_titles, cover_cache, resp)} :
          /\ fut' = [fut EXCEPT ![i] = [st |-> "finished", kind |-> r.kind,
                                        value |-> r.value]]
          /\ all_titles' = r.all_titles
          /\ cover_cache' = r.cache
    /\ UNCHANGED <<pageVars, inventory, inventory_lookup, call, parseVars, yielded, results,
                   net, cover_call>>

\* A loop body that lets the exception of future.result() skip the book.
ResultsAfterDroppingFailed(i) ==
    IF fut[i].kind = "return" THEN Append(results, fut[i].value) ELSE results

\* The body of the as_completed loop for future i (lines 222-233): the
\* task's result, or the "Error" record of its pair when result() raises.
ResultsAfter(i) ==
    IF fut[i].kind = "return" THEN Append(results, fut[i].value)
    ELSE Append(results,
                BookResult(book_tasks[i][1], book_tasks[i][2], "Error", JNull))

\* as_completed yields a finished future not yielded before.
Collect(i) ==
    /\ pc = "collect"
    /\ fut[i].st = "finished"
    /\ i \notin yielded
    /\ results' = ResultsAfter(i)
    /\ yielded' = yielded \cup {i}
    /\ UNCHANGED <<pageVars, resolveVars, parseVars, fut, net, coverVars>>

\* Every future was yielded: the loop and the with block end (no thread is
\* left running), and line 235 returns.
Return ==
    /\ pc = "collect"
    /\ yielded = 1..Len(fut)
    /\ pc' = "returned"
    /\ UNCHANGED <<pageVars, resolveVars, suggestions, book_tasks, poolVars, coverVars>>

Starts == \E i \in 1..Len(fut) : StartTask(i)

Finishes == \E i \in 1..Len(fut), r \in net : FinishTask(i, TaskResponses[r])

NextAgg ==
    \/ Parse
    \/ Submit
    \/ AllSubmitted
    \/ Starts
    \/ Finishes
    \/ \E i \in 1..Len(fut) : Collect(i)
    \/ Return

SpecAgg == InitAgg /\ [][NextAgg]_vars

\* The pool's threads run: a task that can start does, and a running task
\* ends (the request has a timeout, the resolver is a finite computation).
SpecPool == InitPool /\ [][NextAgg]_vars /\ WF_vars(Starts) /\ WF_vars(Finishes)

-----------------------------------------------------------------------------
(* Page specification: the buttons "Get Recommendations", "Clear Cache" and *)
(* "Clear All Caches" of one session, each press being one run of the       *)
(* script, with books.json changing in between                              *)

s_none == <<"n", "o", "n", "e">>
s_a == <<"a">>
s_a_b == <<"a", "_", "b">>
s_c == <<"c">>
s_b_c == <<"b", "_", "c">>
s_Any == <<"A", "n", "y">>

PageInputs(last_book, fav_author, genre, language, age_group) ==
    [last_book |-> last_book, fav_author |-> fav_author, genre |-> genre,
     language |-> language, age_group |-> age_group]

\* What the user can have entered: nothing, the word "none", and free texts
\* with an underscore; the three select boxes at their first option.
Inputs ==
    {PageInputs(<<>>, <<>>, s_Any, s_Any, s_Any),
     PageInputs(s_none, <<>>, s_Any, s_Any, s_Any),
     PageInputs(s_a_b, s_c, s_Any, s_Any, s_Any),
     PageInputs(s_a, s_b_c, s_Any, s_Any, s_Any)}

\* x or 'none' on a string
OrNoneWord(x) == IF x = <<>> THEN s_none ELSE x

\* The f-string of line 339.
CacheKey(inp) ==
    OrNoneWord(inp.last_book) \o <<"_">> \o OrNoneWord(inp.fav_author) \o <<"_">>
    \o inp.genre \o <<"_">> \o inp.language \o <<"_">> \o inp.age_group

\* last_book or None
OrNone(x) == IF x = <<>> THEN JNull ELSE JStr(x)

\* The arguments of recommend_books on line 351, which st.cache_data hashes.
RecommendArgs(inp) ==
    <<OrNone(inp.last_book), inp.fav_author, inp.genre, inp.language, inp.age_group>>

Holds(cache, key) == \E e \in cache : e.key = key

EntryOf(cache, key) == CHOOSE e \in cache : e.key = key

\* An entry of an st.cache_data cache.
CacheEntry(key, value) == [key |-> key, value |-> value]

\* An entry of the session's dict, with the inputs of the request that
\* computed its value.
SessionEntry(key, value, inp) == [key |-> key, value |-> value, computed_for |-> inp]

\* What model.generate_content can do: raise, or answer with a text.
LlmRaises == [ok |-> FALSE, text |-> <<>>]
LlmAnswers(text) == [ok |-> TRUE, text |-> text]

\* The answers of the model: one book that is in no catalog.
LlmOutcomes ==
    {LlmRaises,
     LlmAnswers(<<"1", ".", " ">> \o s_Zz \o <<" ", "-", " ">> \o s_xx \o <<"\n">>)}

\* The body of recommend_books (lines 150-180): response.text.strip(), or ""
\* when the call raises.
RecommendBooksBody(outcome) == IF outcome.ok THEN Strip(outcome.text) ELSE <<>>

\* recommend_books(...) under st.cache_data: the cached text, or the body's.
RecommendBooks(inp, outcome, data) ==
    IF Holds(data, RecommendArgs(inp))
    THEN [value |-> EntryOf(data, RecommendArgs(inp)).value, ran |-> FALSE,
          data |-> data]
    ELSE [value |-> RecommendBooksBody(outcome), ran |-> TRUE,
          data |-> data \cup {CacheEntry(RecommendArgs(inp),
                                         RecommendBooksBody(outcome))}]

\* The cover requests of the page's runs find no connection.
PageCover == Failed("ConnectionError")

\* One more task done: its record appended as lines 222-233 do, all_titles
\* as the task left it.
AfterTask(sofar, pair, task) ==
    [books |-> Append(sofar.books,
                      IF task.kind = "return" THEN task.value
                      ELSE BookResult(pair[1], pair[2], "Error", JNull)),
     all_titles |-> task.all_titles]

WithTask(sofar, pair, lookup) ==
    AfterTask(sofar, pair,
              FetchSingleBookData(pair[1], pair[2], lookup, sofar.all_titles,
                                  [key \in CoverKeys |-> NotCached], PageCover))

RECURSIVE TasksInOrder(_, _, _, _)
\* The first n tasks, completing in the order of submission.
TasksInOrder(pairs, n, lookup, at) ==
    IF n = 0 THEN [books |-> <<>>, all_titles |-> at]
    ELSE Apply(LAMBDA sofar : WithTask(sofar, pairs[n], lookup),
               TasksInOrder(pairs, n - 1, lookup, at))

\* The body of check_inventory_with_images (lines 198-235).
CheckInventoryBody(text, lookup, at) ==
    TasksInOrder(ParseBooks(text), Len(ParseBooks(text)), lookup, at)

Computed(text, data, body) ==
    [value |-> body.books, ran |-> TRUE, all_titles |-> body.all_titles,
     data |-> data \cup {CacheEntry(text, body.books)}]

\* check_inventory_with_images(suggestions) under st.cache_data.
CheckInventoryWithImages(text, lookup, at, data) ==
    IF Holds(data, text)
    THEN [value |-> EntryOf(data, text).value, ran |-> FALSE, all_titles |-> at,
          data |-> data]
    ELSE Computed(text, data, CheckInventoryBody(text, lookup, at))

\* What a press of "Get Recommendations" did: whether the session's dict
\* answered (and for which inputs its entry was computed), whether the
\* language model was asked and whether the aggregation ran; whether the
\* press before was one of a clear button, and whether recommendations for
\* these inputs were requested before.
Shown(inp, hit, computed_for, llm, aggregated) ==
    [kind |-> "recommendations", inputs |-> inp, hit |-> hit,
     computed_for |-> computed_for, llm |-> llm, aggregated |-> aggregated,
     after_clear |-> shown.kind \in {"clear_cache", "clear_all_caches"},
     again |-> inp \in history, file |-> <<>>]

\* Line 346: the session's entry for the key answers.
ShowCached(inp, e) ==
    /\ shown' = Shown(inp, TRUE, e.computed_for, FALSE, FALSE)
    /\ UNCHANGED <<recommendations_cache, recommend_data, inventory_data, all_titles>>

\* Lines 349-354 once both functions have answered.
ShowFetched(inp, r, c) ==
    /\ shown' = Shown(inp, FALSE, inp, r.ran, c.ran)
    /\ recommendations_cache' =
          recommendations_cache \cup {SessionEntry(CacheKey(inp), c.value, inp)}
    /\ recommend_data' = r.data
    /\ inventory_data' = c.data
    /\ all_titles' = c.all_titles

\* Lines 351-352.
Fetch(inp, r) ==
    ShowFetched(inp, r,
                CheckInventoryWithImages(r.value, inventory_lookup, all_titles,
                                         inventory_data))

\* The press of "Get Recommendations" with the inputs inp (lines 337-354),
\* the language model doing `outcome` if it is asked.
GetRecommendations(inp, outcome) ==
    /\ Cardinality(history \cup {inp}) <= MaxInputs
    /\ history' = history \cup {inp}
    /\ IF Holds(recommendations_cache, CacheKey(inp))
       THEN ShowCached(inp, EntryOf(recommendations_cache, CacheKey(inp)))
       ELSE Fetch(inp, RecommendBooks(inp, outcome, recommend_data))
    /\ UNCHANGED <<books_json, inventory, inventory_lookup, call, parseVars,
                   poolVars, coverVars>>

\* What a press of a clear button showed.
Cleared(kind) ==
    [NothingShown EXCEPT !.kind = kind, !.file = books_json]

\* What both clear buttons do (lines 389-390, 401-402), and the next run's
\* line 46.  The st.cache_data entries and all_titles stay.
ClearSession(kind) ==
    /\ recommendations_cache' = {}
    /\ inventory' = books_json
    /\ inventory_lookup' = IndexOf[books_json]
    /\ shown' = Cleared(kind)
    /\ UNCHANGED <<books_json, recommend_data, inventory_data, history, all_titles,
                   call, parseVars, poolVars>>

\* The press of "Clear Cache" (lines 388-391).
ClearCache ==
    /\ ClearSession("clear_cache")
    /\ UNCHANGED coverVars

\* The press of "Clear All Caches" (lines 396-404): the lru_caches are
\* cleared as well.
ClearAllCaches ==
    /\ ClearSession("clear_all_caches")
    /\ cover_cache' = [key \in CoverKeys |-> NotCached]
    /\ UNCHANGED cover_call

\* The books.json files of the page's runs.
PageCatalogs == {<<CatalogEntries[1]>>, <<CatalogEntries[3]>>}

\* Somebody edits books.json.
ChangeCatalog(file) ==
    /\ file # books_json
    /\ books_json' = file
    /\ UNCHANGED <<recommendations_cache, recommend_data, inventory_data, shown,
                   history, resolveVars, parseVars, poolVars, coverVars>>

\* The ttl of an st.cache_data entry of recommend_books runs out (line 147).
ExpireRecommendation(e) ==
    /\ recommend_data' = recommend_data \ {e}
    /\ UNCHANGED <<books_json, recommendations_cache, inventory_data, shown,
                   history, resolveVars, parseVars, poolVars, coverVars>>

\* The ttl of an entry of check_inventory_with_images runs out (line 195).
ExpireInventory(e) ==
    /\ inventory_data' = inventory_data \ {e}
    /\ UNCHANGED <<books_json, recommendations_cache, recommend_data, shown,
                   history, resolveVars, parseVars, poolVars, coverVars>>

\* A session's first run (lines 38-39, 46).
InitPage ==
    /\ ParseIdle
    /\ PoolIdle
    /\ CoverIdle
    /\ \E file \in PageCatalogs : PageIdle(file)
    /\ inventory = books_json
    /\ inventory_lookup = IndexOf[books_json]
    /\ all_titles = Absent
    /\ call = NoCall

NextPage ==
    \/ \E inp \in Inputs, outcome \in LlmOutcomes : GetRecommendations(inp, outcome)
    \/ ClearCache
    \/ ClearAllCaches
    \/ \E file \in PageCatalogs : ChangeCatalog(file)
    \/ \E e \in recommend_data : ExpireRecommendation(e)
    \/ \E e \in inventory_data : ExpireInventory(e)

SpecPage == InitPage /\ [][NextPage]_vars

-----------------------------------------------------------------------------
(* Claims about find_in_inventory, checked under SpecResolve *)

InCatalog(e, inv) == \E i \in 1..Len(inv) : inv[i] = CatalogEntries[e]

\* The last call spelt an entry of the catalog the index was built from, with
\* the default cutoff.
CalledWithEntry ==
    /\ call.kind # "none"
    /\ call.cutoff = DefaultCutoff
    /\ call.entry # 0
    /\ InCatalog(call.entry, inventory)

ReturnedItsAvailability ==
    /\ call.kind = "return"
    /\ call.value = CatalogEntries[call.entry].available

PairwiseDifferentTitles(inv) ==
    \A i, j \in 1..Len(inv) : i # j => inv[i].title # inv[j].title

\* Titles that stay different when letter case and surrounding whitespace
\* are ignored.
PairwiseDifferentSpellings(inv) ==
    \A i, j \in 1..Len(inv) :
        i # j => Lower(StripChars(inv[i].title, Whitespace))
                    # Lower(StripChars(inv[j].title, Whitespace))

\* C2 as stated: in a catalog whose entries have pairwise different titles,
\* find_in_inventory(A.title, A.author), in any letter case and with any
\* surrounding whitespace, returns exactly A.available.
C2_ExactMatchAsStated ==
    CalledWithEntry /\ PairwiseDifferentTitles(inventory) => ReturnedItsAvailability

\* C2 amended: the same for catalogs whose titles are pairwise different
\* after lowercasing and trimming (the index key's normalisation).
C2_ExactMatch ==
    CalledWithEntry /\ PairwiseDifferentSpellings(inventory) => ReturnedItsAvailability

\* C2's case: a two-entry catalog, an entry whose availability is neither
\* "yes" nor "no", queried in a spelling that is not the catalog's.
C2_Witness ==
    /\ CalledWithEntry
    /\ Len(inventory) = 2
    /\ PairwiseDifferentSpellings(inventory)
    /\ call.title # CatalogEntries[call.entry].title
    /\ call.author # CatalogEntries[call.entry].author
    /\ call.value = "maybe"

\* C3 as stated: when the normalised pair is no key of the index, the call
\* returns the availability of the first index entry carrying the title that
\* matches best among the index's titles at or above the cutoff, and
\* "Not in Inventory" when no title of the index reaches the cutoff.
C3_FuzzyFallbackAsStated ==
    (/\ call.kind # "none"
     /\ CutoffValid(call.cutoff)
     /\ ~HasKey(inventory_lookup, Norm(call.title), Norm(call.author)))
    => /\ call.kind = "return"
       /\ call.value =
             FuzzyResult(inventory_lookup, all_titles,
                         EntriesTitled(inventory_lookup,
                                       GetCloseMatches(Norm(call.title),
                                                       TitlesOf(inventory_lookup),
                                                       call.cutoff))).value

\* C6 as stated: a call fails exactly when its cutoff is outside [0, 1].
C6_FailsExactlyOnBadCutoffAsStated ==
    call.kind # "none" => (call.kind = "raise" <=> ~CutoffValid(call.cutoff))

-----------------------------------------------------------------------------
(* Claims about the line parser, checked under SpecParse *)

Digits == {"0", "1", "2", "3", "4", "5", "6", "7", "8", "9"}

\* How many digits t starts with.
LeadingDigits(t) == Max({k \in 0..Len(t) : \A i \in 1..k : t[i] \in Digits})

\* t without a list number "12." in front: k digits and a full stop.
Unnumbered(t, k) ==
    IF k > 0 /\ k < Len(t) /\ t[k + 1] = "."
    THEN Strip(SubSeq(t, k + 2, Len(t)))
    ELSE t

\* The title the claim describes: the part before the first "-", trimmed,
\* without its list number, its own digits and full stops kept.
TitleAsStated(part) == Unnumbered(Strip(part), LeadingDigits(Strip(part)))

PairIfBoth(sofar, t, a) ==
    IF t = <<>> \/ a = <<>> THEN sofar ELSE Append(sofar, <<t, a>>)

RECURSIVE PairsAsStated(_, _)
PairsAsStated(lines, n) ==
    IF n = 0 THEN <<>>
    ELSE IF ~Contains(lines[n], "-") THEN PairsAsStated(lines, n - 1)
    ELSE PairIfBoth(PairsAsStated(lines, n - 1),
                    TitleAsStated(SplitOnce(lines[n], "-")[1]),
                    Strip(SplitOnce(lines[n], "-")[2]))

\* C4 as stated: the parsed pairs are, line by line, the title before the
\* first "-" without leading list numbering and surrounding whitespace (its
\* own digits and full stops kept) and the trimmed author after it, for the
\* lines where both are non-empty.
C4_ParsesAsStated ==
    pc = "submit" =>
        book_tasks = PairsAsStated(Split(suggestions, "\n"),
                                   Len(Split(suggestions, "\n")))

-----------------------------------------------------------------------------
(* Claims about get_book_cover, checked under SpecCover *)

\* C5 as stated: get_book_cover never raises; it returns None or a cover
\* URL, and None whenever the request itself failed.
C5_NeverRaisesAsStated ==
    cover_call.kind # "none" =>
        /\ cover_call.kind = "return"
        /\ cover_call.value = JNull \/ cover_call.value.k = "str"
        /\ cover_call.resp # 0 /\ Responses[cover_call.resp].t = "raise"
              => cover_call.value = JNull

-----------------------------------------------------------------------------
(* Claims about check_inventory_with_images, checked under SpecAgg and      *)
(* SpecPool                                                                 *)

\* The record the claim describes for task i: what the task returned, or the
\* "Error" record of its pair when the task raised.
RecordOf(i) ==
    IF fut[i].kind = "raise"
    THEN BookResult(book_tasks[i][1], book_tasks[i][2], "Error", JNull)
    ELSE fut[i].value

Occurrences(seq, x) == Cardinality({i \in 1..Len(seq) : seq[i] = x})

\* s and t hold the same elements the same number of times.
SameBag(s, t) ==
    /\ Len(s) = Len(t)
    /\ \A i \in 1..Len(s) : Occurrences(s, s[i]) = Occurrences(t, s[i])

\* C1: the returned list has exactly one record per parsed pair, duplicates
\* included: the "Error" record without cover for a pair whose task raised,
\* and for every other pair the record of its own task, whose availability
\* is the resolver's answer whatever happened to the other tasks.
C1_OneRecordPerPair ==
    pc = "returned" =>
        /\ Len(results) = Len(ParseBooks(suggestions))
        /\ SameBag([i \in 1..Len(results) |-> <<results[i].title, results[i].author>>],
                   ParseBooks(suggestions))
        /\ SameBag(results, [i \in 1..Len(fut) |-> RecordOf(i)])
        /\ \A i \in 1..Len(fut) :
              fut[i].kind = "return" =>
                  /\ fut[i].value.title = book_tasks[i][1]
                  /\ fut[i].value.author = book_tasks[i][2]
                  /\ fut[i].value.availability =
                        FindInInventory(book_tasks[i][1], book_tasks[i][2],
                                        DefaultCutoff, inventory_lookup, Absent).value

\* C1's case: a returned run over a list with a repeated pair in which one
\* task raised and another one produced a cover.
C1_Witness ==
    /\ pc = "returned"
    /\ \E i, j \in 1..Len(fut) : i # j /\ book_tasks[i] = book_tasks[j]
    /\ \E i \in 1..Len(fut) : fut[i].kind = "raise"
    /\ \E i \in 1..Len(results) : results[i].availability = "Error"
    /\ \E i \in 1..Len(results) : results[i].cover # JNull

\* C7: at most max_workers tasks run at the same time, the function returns
\* only when every parsed pair was submitted and every task has finished,
\* and every submitted task eventually runs: a task that has left the queue
\* never waits again, and again and again no submitted task is waiting.
C7_BoundedPool ==
    /\ [](Cardinality(Running) <= MaxWorkers)
    /\ [](pc = "returned" =>
             /\ Len(fut) = Len(book_tasks)
             /\ \A i \in 1..Len(fut) : fut[i].st = "finished")
    /\ [][\A i \in 1..Len(fut) : fut[i].st # "queued" => fut'[i].st # "queued"]_vars
    /\ []<>(\A i \in 1..Len(fut) : fut[i].st \in {"running", "finished"})

\* C7's case: max_workers tasks are running and another one waits.
C7_Witness ==
    /\ Cardinality(Running) = MaxWorkers
    /\ \E i \in 1..Len(fut) : fut[i].st = "queued"

-----------------------------------------------------------------------------
(* Claims about the page's caches, checked under SpecPage *)

\* C8 as stated: the first "Get Recommendations" after a press of a clear
\* button, for inputs requested before, asks the language model and runs the
\* aggregation again.
C8_ClearRefreshesAsStated ==
    (shown.kind = "recommendations" /\ shown.after_clear /\ shown.again)
    => (shown.llm /\ shown.aggregated)

\* C9 as stated: a request answered from the session's dict gets a result
\* that was computed for exactly its own five inputs.
C9_KeyedPerInputsAsStated ==
    (shown.kind = "recommendations" /\ shown.hit)
    => shown.computed_for = shown.inputs

\* C10 as stated: all_titles, once set, is the list of the titles of the
\* index's keys, and right after "Clear All Caches" the index is the one
\* derived from books.json as it was at the press.
C10_TitlesFollowIndexAsStated ==
    /\ all_titles.present => all_titles.titles = TitlesOf(inventory_lookup)
    /\ shown.kind = "clear_all_caches"
          => inventory_lookup = BuildInventoryLookup(shown.file)

=============================================================================
